---- MODULE Spec2Model ----
(***************************************************************************)
(* hal-9001: the event envelope (hal/event.go) and the console broker.     *)
(*                                                                         *)
(* Text that the program tokenizes (event bodies, input lines, replies) is *)
(* a sequence of one-character strings.  Names and ids, which the program  *)
(* only copies and compares, are plain strings.  A Go value that may be    *)
(* nil (interface, pointer, func) is Nil == <<>> or Some(x) == <<x>>.      *)
(*                                                                         *)
(* SpecEvt applies the methods of Evt to every envelope of a bounded set,  *)
(* recording the calls each makes on the broker, the delivery function and *)
(* the preference store.  SpecArgv applies BodyAsArgv to every body up to  *)
(* a bounded length.  SpecBroker runs the three goroutines of the console  *)
(* broker and the callers of its send methods; each action holds one       *)
(* channel operation, the point at which a goroutine can wait.             *)
(* SpecBrokerFair is SpecBroker with the goroutines scheduled fairly.      *)
(***************************************************************************)
EXTENDS Integers, Sequences, FiniteSets, TLC

VARIABLES
    now,        \* the last reading of the process clock (time.Now())
    store,      \* the preference store: a set of Pref rows
    e,          \* SpecEvt: the envelope the operations are called on
    op,         \* SpecEvt: the last operation applied to e ("init": none yet)
    msg,        \* SpecEvt: the message argument of that operation
    calls,      \* SpecEvt: the calls that operation made, in order
    panicked,   \* SpecEvt: whether that operation ended in a panic
    ret,        \* SpecEvt: the envelope that operation returned, if any
    res,        \* SpecEvt: any other value that operation returned
    cb,         \* SpecBroker: the console Broker value (User, Room)
    Stdin,      \* SpecBroker: cb.Stdin, the channel of input lines
    Stdout,     \* SpecBroker: cb.Stdout, the channel of outbound texts
    out,        \* SpecBroker: the channel Stream forwards events on
    pc,         \* SpecBroker: position of the Stream goroutine
    cur,        \* SpecBroker: Stream's local e (and what it still has to do)
    pushedIn,   \* history: lines sent on cb.Stdin, in order
    dispatched, \* history: lines Stream received, in order
    forwarded,  \* history: events Stream sent on out, in order
    enqueued,   \* history: texts sent on cb.Stdout, in order
    written,    \* history: texts written to os.Stdout, in order
    nsends      \* SpecBroker: sends made by reply callers other than Stream

vars == <<now, store, e, op, msg, calls, panicked, ret, res, cb, Stdin, Stdout, out,
          pc, cur, pushedIn, dispatched, forwarded, enqueued, written,
          nsends>>

evtVars == <<e, op, msg, calls, panicked, ret, res>>

brokerVars == <<cb, Stdin, Stdout, out, pc, cur, pushedIn, dispatched,
                forwarded, enqueued, written, nsends>>

-----------------------------------------------------------------------------
(* Bounds *)

\* the largest reading of the clock
MaxTime == 1

\* the number of non-empty lines os.Stdin delivers before it ends
MaxLines == 3

\* the capacity of cb.Stdin and of cb.Stdout (1000 in NewBroker), scaled down
\* so that a full channel is reached
QueueCap == 2

\* the capacity of the channel Stream is given
OutCap == 1

\* the number of sends made by reply callers other than Stream
MaxSends == 1

\* the length of the longest body given to the tokenizer
MaxLen == 5

-----------------------------------------------------------------------------
(* nil-able values *)

Nil == <<>>

Some(x) == <<x>>

Val(o) == o[1]

-----------------------------------------------------------------------------
(* strings package helpers, on sequences of characters *)

SQ == "'"

DQ == "\""

IsSpace(c) == c \in {" ", "\t"}

HasPrefix(s, p) == Len(s) >= Len(p) /\ SubSeq(s, 1, Len(p)) = p

HasSuffix(s, p) == Len(s) >= Len(p) /\ SubSeq(s, Len(s) - Len(p) + 1, Len(s)) = p

TrimPrefix(s, p) == IF HasPrefix(s, p) THEN SubSeq(s, Len(p) + 1, Len(s)) ELSE s

TrimSuffix(s, p) == IF HasSuffix(s, p) THEN SubSeq(s, 1, Len(s) - Len(p)) ELSE s

TrimSpace(s) ==
    LET keep == {i \in 1..Len(s) : ~IsSpace(s[i])}
        Min(S) == CHOOSE x \in S : \A y \in S : x <= y
        Max(S) == CHOOSE x \in S : \A y \in S : x >= y
    IN  IF keep = {} THEN <<>> ELSE SubSeq(s, Min(keep), Max(keep))

-----------------------------------------------------------------------------
(* regexp `'[^']*'|"[^"]*"|\S+` : leftmost match, alternatives in order *)

\* the index of the first q after position i, or 0
NextQuote(s, i, q) ==
    LET js == {j \in (i + 1)..Len(s) : s[j] = q}
    IN  IF js = {} THEN 0 ELSE CHOOSE j \in js : \A k \in js : j <= k

\* the last index of the run of non-whitespace that starts at i
RunEnd(s, i) ==
    LET stops == {j \in (i + 1)..Len(s) : IsSpace(s[j])}
    IN  IF stops = {} THEN Len(s)
        ELSE (CHOOSE j \in stops : \A k \in stops : j <= k) - 1

\* the last index of the match that starts at i, or 0 when none starts there
MatchEnd(s, i) ==
    IF s[i] = SQ /\ NextQuote(s, i, SQ) # 0 THEN NextQuote(s, i, SQ)
    ELSE IF s[i] = DQ /\ NextQuote(s, i, DQ) # 0 THEN NextQuote(s, i, DQ)
    ELSE IF ~IsSpace(s[i]) THEN RunEnd(s, i)
    ELSE 0

RECURSIVE FindAllFrom(_, _)
FindAllFrom(s, i) ==
    IF i > Len(s) THEN <<>>
    ELSE IF MatchEnd(s, i) = 0 THEN FindAllFrom(s, i + 1)
    ELSE <<SubSeq(s, i, MatchEnd(s, i))>> \o FindAllFrom(s, MatchEnd(s, i) + 1)

FindAllString(s) == FindAllFrom(s, 1)

\* the loop body of BodyAsArgv: remove the outer quotes of one token
Unquote(val) ==
    IF HasPrefix(val, <<SQ>>) /\ HasSuffix(val, <<SQ>>)
    THEN TrimSuffix(TrimPrefix(val, <<SQ>>), <<SQ>>)
    ELSE IF HasPrefix(val, <<DQ>>) /\ HasSuffix(val, <<DQ>>)
    THEN TrimSuffix(TrimPrefix(val, <<DQ>>), <<DQ>>)
    ELSE val

BodyAsArgv(ev) ==
    LET argv == FindAllString(TrimSpace(ev.Body))
    IN  [i \in 1..Len(argv) |-> Unquote(argv[i])]

-----------------------------------------------------------------------------
(* hal.Evt *)

\* the zero value of Evt with the named fields of a composite literal set
ZeroEvt ==
    [ID |-> "", Body |-> <<>>, Command |-> "", Subject |-> "", Room |-> "",
     RoomId |-> "", User |-> "", UserId |-> "", Time |-> 0, Broker |-> Nil,
     IsChat |-> FALSE, IsBot |-> FALSE, ToUser |-> FALSE, ToRoom |-> FALSE,
     ToFunc |-> FALSE, ReplyFunc |-> Nil, Original |-> Nil, instance |-> Nil]

\* a bug: line 62 missing, the clone keeping the zero time
Clone_ZeroTime(ev, t) ==
    [ZeroEvt EXCEPT !.ID = ev.ID, !.Room = ev.Room, !.RoomId = ev.RoomId,
                    !.User = ev.User, !.UserId = ev.UserId,
                    !.Broker = ev.Broker, !.IsChat = ev.IsChat,
                    !.IsBot = ev.IsBot, !.Original = ev.Original]

\* a bug: the clone as a value copy that keeps the force flags
Clone_KeepsFlags(ev, t) ==
    [ZeroEvt EXCEPT !.ID = ev.ID, !.Room = ev.Room, !.RoomId = ev.RoomId,
                    !.User = ev.User, !.UserId = ev.UserId, !.Time = t,
                    !.Broker = ev.Broker, !.IsChat = ev.IsChat,
                    !.IsBot = ev.IsBot, !.Original = ev.Original,
                    !.ToUser = ev.ToUser, !.ToRoom = ev.ToRoom,
                    !.ToFunc = ev.ToFunc]

\* Evt.Clone, t being the reading of time.Now()
Clone(ev, t) ==
    [ZeroEvt EXCEPT !.ID = ev.ID, !.Room = ev.Room, !.RoomId = ev.RoomId,
                    !.User = ev.User, !.UserId = ev.UserId, !.Time = t,
                    !.Broker = ev.Broker, !.IsChat = ev.IsChat,
                    !.IsBot = ev.IsBot, !.Original = ev.Original]

\* the outcome of a piece of code: the calls it made and whether it panicked
Ok(cs) == [calls |-> cs, panicked |-> FALSE]

Panic(cs) == [calls |-> cs, panicked |-> TRUE]

\* r, and then the code whose outcome is s, unless r panicked
Then(r, s) ==
    IF r.panicked THEN r
    ELSE [calls |-> r.calls \o s.calls, panicked |-> s.panicked]

Call(name, arg) == [op |-> name, arg |-> arg]

\* Broker.Name of the console broker
Name(b) == b.Room

\* Evt.BrokerName: a method call on a nil interface panics
BrokerName(ev) == IF ev.Broker = Nil THEN Nil ELSE Some(Name(Val(ev.Broker)))

\* a bug: a guard that returns quietly when no broker is attached
ReplyDM_NilIgnored(ev, m, t) ==
    LET o == [Clone(ev, t) EXCEPT !.Body = m]
    IN  IF ev.Broker = Nil THEN Ok(<<>>) ELSE Ok(<<Call("SendDM", o)>>)

\* Evt.ReplyDM: e.Broker.SendDM on a nil interface is a nil dereference
ReplyDM(ev, m, t) ==
    LET o == [Clone(ev, t) EXCEPT !.Body = m]
    IN  IF ev.Broker = Nil THEN Panic(<<>>) ELSE Ok(<<Call("SendDM", o)>>)

\* Evt.ReplyToRoom
ReplyToRoom(ev, m, t) ==
    LET o == [Clone(ev, t) EXCEPT !.Body = m]
    IN  IF ev.Broker # Nil THEN Ok(<<Call("Send", o)>>) ELSE Panic(<<>>)

\* a bug: the table routed by the force flags, as Reply routes a message
ReplyTable_Routed(ev, hdr, rows, t) ==
    LET o == Clone(ev, t)
        tbl == [evt |-> o, hdr |-> hdr, rows |-> rows]
    IN  IF ev.Broker # Nil
        THEN IF ev.ToUser THEN Ok(<<Call("SendDM", o), Call("SendTable", tbl)>>)
             ELSE Ok(<<Call("SendTable", tbl)>>)
        ELSE Panic(<<>>)

\* Evt.ReplyTable
ReplyTable(ev, hdr, rows, t) ==
    LET o == Clone(ev, t)
    IN  IF ev.Broker # Nil
        THEN Ok(<<Call("SendTable", [evt |-> o, hdr |-> hdr, rows |-> rows])>>)
        ELSE Panic(<<>>)

\* a bug: lines 204-207 without the nil test, e.instance dereferenced
AsPref_Unguarded(ev) ==
    IF ev.instance = Nil \/ BrokerName(ev) = Nil THEN Nil
    ELSE Some([User |-> ev.UserId, Room |-> ev.RoomId,
               Broker |-> Val(BrokerName(ev)),
               Plugin |-> Val(ev.instance).Plugin.Name])

\* Evt.AsPref; Nil when e.BrokerName() panics
AsPref(ev) ==
    LET plugin == IF ev.instance # Nil THEN Val(ev.instance).Plugin.Name ELSE ""
    IN  IF BrokerName(ev) = Nil THEN Nil
        ELSE Some([User |-> ev.UserId, Room |-> ev.RoomId,
                   Broker |-> Val(BrokerName(ev)), Plugin |-> plugin])

\* Pref.FindKey(key).One() against the rows of the store
FindKeyOne(p, key, st) ==
    LET hits == {r \in st : /\ r.User = p.User /\ r.Room = p.Room
                            /\ r.Broker = p.Broker /\ r.Plugin = p.Plugin
                            /\ r.Key = key}
    IN  IF hits = {} THEN [Success |-> FALSE, Value |-> ""]
        ELSE [Success |-> TRUE, Value |-> (CHOOSE r \in hits : TRUE).Value]

\* a bug: the function is called only when no other force flag is set
ReplyStepFunc_OnlyAlone(ev, m) ==
    IF ev.ToFunc /\ ~ev.ToRoom /\ ~ev.ToUser
    THEN IF ev.ReplyFunc = Nil THEN Panic(<<>>) ELSE Ok(<<Call("ReplyFunc", m)>>)
    ELSE Ok(<<>>)

\* Reply, lines 82-85
ReplyStepFunc(ev, m) ==
    IF ev.ToFunc
    THEN IF ev.ReplyFunc = Nil THEN Panic(<<>>) ELSE Ok(<<Call("ReplyFunc", m)>>)
    ELSE Ok(<<>>)

\* Reply, lines 87-90
ReplyStepRoom(ev, m, t) == IF ev.ToRoom THEN ReplyToRoom(ev, m, t) ELSE Ok(<<>>)

\* a bug: "else if e.ToUser", the room flag shadowing the user flag
ReplyStepUser_ElseIf(ev, m, t) ==
    IF ev.ToUser /\ ~ev.ToRoom THEN ReplyDM(ev, m, t) ELSE Ok(<<>>)

\* Reply, lines 92-95
ReplyStepUser(ev, m, t) == IF ev.ToUser THEN ReplyDM(ev, m, t) ELSE Ok(<<>>)

\* a bug: line 89 missing, the room branch not setting delivered
Delivered_RoomUnset(ev) == ev.ToFunc \/ ev.ToUser

\* Reply, lines 80-99: the value of delivered at line 97
Delivered(ev) == ev.ToFunc \/ ev.ToRoom \/ ev.ToUser

\* a bug: line 105 missing, any stored value sending the reply by DM
ReplyByPref_AnyValue(ev, m, st, t) ==
    IF AsPref(ev) = Nil THEN Panic(<<>>)
    ELSE LET p == Val(AsPref(ev))
             replyVia == FindKeyOne(p, "reply-via-dm", st)
             look == Ok(<<Call("FindKey", [pref |-> p, key |-> "reply-via-dm"])>>)
         IN  IF replyVia.Success
             THEN Then(look, ReplyDM(ev, m, t))
             ELSE Then(look, ReplyToRoom(ev, m, t))

\* Reply, lines 101-112
ReplyByPref(ev, m, st, t) ==
    IF AsPref(ev) = Nil THEN Panic(<<>>)
    ELSE LET p == Val(AsPref(ev))
             replyVia == FindKeyOne(p, "reply-via-dm", st)
             look == Ok(<<Call("FindKey", [pref |-> p, key |-> "reply-via-dm"])>>)
         IN  IF replyVia.Success /\ replyVia.Value = "true"
             THEN Then(look, ReplyDM(ev, m, t))
             ELSE Then(look, ReplyToRoom(ev, m, t))

\* Evt.Reply; t1 and t2 are the clock readings of its first and second Clone
Reply(ev, m, st, t1, t2) ==
    LET forced == Then(Then(ReplyStepFunc(ev, m), ReplyStepRoom(ev, m, t1)),
                       ReplyStepUser(ev, m, IF ev.ToRoom THEN t2 ELSE t1))
    IN  IF Delivered(ev) THEN forced
        ELSE Then(forced, ReplyByPref(ev, m, st, t2))

\* a bug: the flag set on the receiver before it is cloned
ForceToRoom_InPlace(ev, t) ==
    [recv |-> [ev EXCEPT !.ToRoom = TRUE],
     ret |-> [Clone(ev, t) EXCEPT !.ToRoom = TRUE]]

\* Evt.ForceToRoom: the receiver *e after the call, and the value returned
ForceToRoom(ev, t) ==
    [recv |-> ev, ret |-> [Clone(ev, t) EXCEPT !.ToRoom = TRUE]]

\* Evt.ForceToUser: the receiver *e after the call, and the value returned
ForceToUser(ev, t) ==
    [recv |-> ev, ret |-> [Clone(ev, t) EXCEPT !.ToUser = TRUE]]

-----------------------------------------------------------------------------
(* the console broker: construction *)

\* Config.NewBroker, envUser being os.Getenv("USER"); the two channels it
\* makes are the variables Stdin and Stdout, of capacity QueueCap
NewBroker(name, envUser) ==
    [User |-> IF envUser = "" THEN "testuser" ELSE envUser, Room |-> name]

-----------------------------------------------------------------------------
(* input lines and tables *)

\* the case label of the switch in Stream, line 109
ReactionCmd == <<"/", "r", "e", "a", "c", "t", "i", "o", "n">>

LineReaction == <<"/", "r", "e", "a", "c", "t", "i", "o", "n", " ", ":", "y", ":">>

LineReactionNoArg == ReactionCmd

LineReactionTwoArgs == <<"/", "r", "e", "a", "c", "t", "i", "o", "n", " ", "a", " ", "b">>

LineUnknown == <<"/", "x">>

\* a plain line; scanner.Text() keeps its trailing blank
LinePlain == <<"h", "i", " ">>

\* the lines os.Stdin may deliver; <<>> is an empty line
Lines == {<<>>, LinePlain, LineUnknown, LineReaction,
          LineReactionNoArg, LineReactionTwoArgs}

\* e.BodyAsArgv() for an envelope whose body is an input line, tabulated
ArgvOfLine == [l \in Lines |-> BodyAsArgv([Body |-> l])]

TableHdr == <<<<"k">>>>

TableRows == <<<<<<"v">>>>>>

-----------------------------------------------------------------------------
(* the console broker: channels and pumps *)

\* time.Now() in the pumps: the clock has ticked once since its last reading n,
\* until it reaches MaxTime
Tick(n) == {IF n < MaxTime THEN n + 1 ELSE n}

\* a bug: a channel that never makes its sender wait
CanSend_Unbounded(ch, c) == TRUE

\* a channel of capacity c accepts a send without blocking
CanSend(ch, c) == Len(ch) < c

\* ch <- x
ChanSend(ch, x) == Append(ch, x)

\* a bug: receiving the newest entry instead of the oldest
ChanRecv_Newest(ch) ==
    [val |-> ch[Len(ch)], rest |-> SubSeq(ch, 1, Len(ch) - 1)]

\* <-ch, on a channel that holds something
ChanRecv(ch) == [val |-> Head(ch), rest |-> Tail(ch)]

\* the text Broker.Send sends on cb.Stdout
SendText(ev) == ev.Body

\* the console broker's SendDM: like Send, it hands the body to the outbound
\* queue, the console having one sink for every reply path
SendDMText(ev) == ev.Body

RECURSIVE Flatten(_)
Flatten(ss) == IF ss = <<>> THEN <<>> ELSE Head(ss) \o <<"\n">> \o Flatten(Tail(ss))

\* hal.Utf8Table: the header and the rows rendered as one text
Utf8Table(hdr, rows) == Flatten(<<Flatten(hdr)>> \o [i \in 1..Len(rows) |-> Flatten(rows[i])])

\* the text Broker.SendTable sends on cb.Stdout
SendTableText(ev, hdr, rows) == Utf8Table(hdr, rows)

\* a bug: the writer framing each text with a newline
WriteString_Framed(txt) == txt \o <<"\n">>

\* what os.Stdout.WriteString(txt) adds to the sink
WriteString(txt) == txt

UsageMsg ==
    <<"/", "r", "e", "a", "c", "t", "i", "o", "n", " ", "r", "e", "q", "u",
      "i", "r", "e", "s", " ", "e", "x", "a", "c", "t", "l", "y", " ", "o",
      "n", "e", " ", "a", "r", "g", "u", "m", "e", "n", "t", "!">>

\* a bug: the line trimmed before it becomes the body
StreamEvt_Trimmed(b, input, t) ==
    [ZeroEvt EXCEPT !.User = b.User, !.UserId = b.User, !.Room = b.Room,
                    !.RoomId = b.Room, !.Body = TrimSpace(input), !.Time = t,
                    !.Broker = Some(b),
                    !.Original = Some([type |-> "string", val |-> input])]

\* the envelope Stream builds for an input line, lines 93-102
StreamEvt(b, input, t) ==
    [ZeroEvt EXCEPT !.User = b.User, !.UserId = b.User, !.Room = b.Room,
                    !.RoomId = b.Room, !.Body = input, !.Time = t,
                    !.Broker = Some(b),
                    !.Original = Some([type |-> "string", val |-> input])]

\* a bug: "len(args) >= 2", extra arguments being ignored
Dispatch_AtLeastOne(ev) ==
    IF HasPrefix(ev.Body, <<"/">>)
    THEN LET args == ArgvOfLine[ev.Body]
         IN  IF args[1] = ReactionCmd
             THEN IF Len(args) >= 2
                  THEN [evt |-> [ev EXCEPT !.Body = args[2],
                                    !.Original = Some([type |-> "SlashReaction",
                                                       val |-> args[2]])],
                        next |-> "recv"]
                  ELSE [evt |-> ev, next |-> "reply"]
             ELSE [evt |-> ev, next |-> "recv"]
    ELSE [evt |-> ev, next |-> "forward"]

\* a bug: a default case that forwards an unknown command as a chat event
Dispatch_UnknownForwarded(ev) ==
    IF HasPrefix(ev.Body, <<"/">>)
    THEN LET args == ArgvOfLine[ev.Body]
         IN  IF args[1] = ReactionCmd
             THEN IF Len(args) = 2
                  THEN [evt |-> [ev EXCEPT !.Body = args[2],
                                    !.Original = Some([type |-> "SlashReaction",
                                                       val |-> args[2]])],
                        next |-> "recv"]
                  ELSE [evt |-> ev, next |-> "reply"]
             ELSE [evt |-> ev, next |-> "forward"]
    ELSE [evt |-> ev, next |-> "forward"]

\* a bug: a default case that returns, ending the Stream goroutine
Dispatch_ReturnOnUnknown(ev) ==
    IF HasPrefix(ev.Body, <<"/">>)
    THEN LET args == ArgvOfLine[ev.Body]
         IN  IF args[1] = ReactionCmd
             THEN IF Len(args) = 2
                  THEN [evt |-> [ev EXCEPT !.Body = args[2],
                                    !.Original = Some([type |-> "SlashReaction",
                                                       val |-> args[2]])],
                        next |-> "recv"]
                  ELSE [evt |-> ev, next |-> "reply"]
             ELSE [evt |-> ev, next |-> "exit"]
    ELSE [evt |-> ev, next |-> "forward"]

\* Stream, lines 104-122: what becomes of e, and what Stream does next
\* (args is e.BodyAsArgv(), e.Body being the input line):
\* "forward" is line 121, "reply" is line 116, "recv" is the next iteration
Dispatch(ev) ==
    IF HasPrefix(ev.Body, <<"/">>)
    THEN LET args == ArgvOfLine[ev.Body]
         IN  IF args[1] = ReactionCmd
             THEN IF Len(args) = 2
                  THEN [evt |-> [ev EXCEPT !.Body = args[2],
                                    !.Original = Some([type |-> "SlashReaction",
                                                       val |-> args[2]])],
                        next |-> "recv"]
                  ELSE [evt |-> ev, next |-> "reply"]
             ELSE [evt |-> ev, next |-> "recv"]
    ELSE [evt |-> ev, next |-> "forward"]

\* the text a broker call of Reply sends on cb.Stdout
CallText(c) ==
    IF c.op = "Send" THEN SendText(c.arg)
    ELSE IF c.op = "SendDM" THEN SendDMText(c.arg)
    ELSE SendTableText(c.arg.evt, c.arg.hdr, c.arg.rows)

-----------------------------------------------------------------------------
(* SpecEvt: the operations of Evt on every envelope of a bounded set *)

Msgs == {<<"o", "k">>, <<"n", "o">>}

Bodies == {<<>>, <<"h", "i">>}

Originals == {Nil, Some([type |-> "string", val |-> <<"h", "i">>])}

Instances == {Nil, Some([Plugin |-> [Name |-> "uptime"]])}

Brokers == {Nil, Some(NewBroker("console", "alice"))}

ReplyFuncs == {Nil, Some("fn")}

PrefValues == {"true", "false"}

PrefRow(plugin, v) ==
    [User |-> "U01", Room |-> "C01", Broker |-> "console", Plugin |-> plugin,
     Key |-> "reply-via-dm", Value |-> v]

\* the stores: for each plugin scope, no row or one row with a value
Stores ==
    {a \cup b : a \in {{}} \cup {{PrefRow("", v)} : v \in PrefValues},
                b \in {{}} \cup {{PrefRow("uptime", v)} : v \in PrefValues}}

Envelopes ==
    {[ID |-> "ev1", Body |-> b, Command |-> "cmd", Subject |-> "subj",
      Room |-> "general", RoomId |-> "C01", User |-> "alice", UserId |-> "U01",
      Time |-> t, Broker |-> br, IsChat |-> chat, IsBot |-> ~chat,
      ToUser |-> tu, ToRoom |-> tr, ToFunc |-> tf, ReplyFunc |-> fn,
      Original |-> o, instance |-> inst] :
        b \in Bodies, t \in 0..MaxTime, br \in Brokers, chat \in BOOLEAN,
        tu \in BOOLEAN, tr \in BOOLEAN, tf \in BOOLEAN, fn \in ReplyFuncs,
        o \in Originals, inst \in Instances}

\* the envelopes on which Stream calls Reply (line 116): built at lines 93-102
\* by the broker NewBroker returns when USER is unset, for a bad /reaction
StreamEnvelopes ==
    {StreamEvt(NewBroker("console", ""), l, t) :
        l \in {LineReactionNoArg, LineReactionTwoArgs}, t \in 0..MaxTime}

BrokerIdle ==
    /\ cb = NewBroker("console", "alice")
    /\ Stdin = <<>> /\ Stdout = <<>> /\ out = <<>>
    /\ pc = "recv" /\ cur = Nil
    /\ pushedIn = <<>> /\ dispatched = <<>> /\ forwarded = <<>>
    /\ enqueued = <<>> /\ written = <<>> /\ nsends = 0

InitEvt ==
    /\ now \in 0..MaxTime
    /\ store \in Stores
    /\ e \in Envelopes \cup StreamEnvelopes
    /\ op = "init" /\ msg = <<>> /\ calls = <<>> /\ panicked = FALSE /\ ret = Nil
    /\ res = Nil
    /\ BrokerIdle

\* e.Reply(m)
EvtReply ==
    /\ op = "init"
    /\ \E m \in Msgs, t1 \in now..MaxTime, t2 \in now..MaxTime :
        /\ t1 <= t2
        /\ (e.ToRoom /\ e.ToUser) \/ t1 = t2
        /\ LET r == Reply(e, m, store, t1, t2)
           IN  /\ calls' = r.calls
               /\ panicked' = r.panicked
        /\ msg' = m
        /\ now' = t2
    /\ op' = "Reply"
    /\ UNCHANGED <<store, e, ret, res>>
    /\ UNCHANGED brokerVars

\* e.ReplyToRoom(m)
EvtReplyToRoom ==
    /\ op = "init"
    /\ \E m \in Msgs, t \in now..MaxTime :
        /\ LET r == ReplyToRoom(e, m, t)
           IN  /\ calls' = r.calls
               /\ panicked' = r.panicked
        /\ msg' = m
        /\ now' = t
    /\ op' = "ReplyToRoom"
    /\ UNCHANGED <<store, e, ret, res>>
    /\ UNCHANGED brokerVars

\* e.ReplyDM(m)
EvtReplyDM ==
    /\ op = "init"
    /\ \E m \in Msgs, t \in now..MaxTime :
        /\ LET r == ReplyDM(e, m, t)
           IN  /\ calls' = r.calls
               /\ panicked' = r.panicked
        /\ msg' = m
        /\ now' = t
    /\ op' = "ReplyDM"
    /\ UNCHANGED <<store, e, ret, res>>
    /\ UNCHANGED brokerVars

\* e.Clone()
EvtClone ==
    /\ op = "init"
    /\ \E t \in now..MaxTime :
        /\ ret' = Some(Clone(e, t))
        /\ now' = t
    /\ op' = "Clone"
    /\ UNCHANGED <<store, e, msg, calls, panicked, res>>
    /\ UNCHANGED brokerVars

\* e.ReplyTable(hdr, rows)
EvtReplyTable ==
    /\ op = "init"
    /\ \E t \in now..MaxTime :
        /\ LET r == ReplyTable(e, TableHdr, TableRows, t)
           IN  /\ calls' = r.calls
               /\ panicked' = r.panicked
        /\ now' = t
    /\ op' = "ReplyTable"
    /\ UNCHANGED <<store, e, msg, ret, res>>
    /\ UNCHANGED brokerVars

\* e.AsPref()
EvtAsPref ==
    /\ op = "init"
    /\ res' = AsPref(e)
    /\ panicked' = (AsPref(e) = Nil)
    /\ op' = "AsPref"
    /\ UNCHANGED <<now, store, e, msg, calls, ret>>
    /\ UNCHANGED brokerVars

\* e.ForceToRoom()
EvtForceToRoom ==
    /\ op = "init"
    /\ \E t \in now..MaxTime :
        /\ e' = ForceToRoom(e, t).recv
        /\ ret' = Some(ForceToRoom(e, t).ret)
        /\ now' = t
    /\ op' = "ForceToRoom"
    /\ UNCHANGED <<store, msg, calls, panicked, res>>
    /\ UNCHANGED brokerVars

\* e.ForceToUser()
EvtForceToUser ==
    /\ op = "init"
    /\ \E t \in now..MaxTime :
        /\ e' = ForceToUser(e, t).recv
        /\ ret' = Some(ForceToUser(e, t).ret)
        /\ now' = t
    /\ op' = "ForceToUser"
    /\ UNCHANGED <<store, msg, calls, panicked, res>>
    /\ UNCHANGED brokerVars

\* chaining: e.ForceToRoom().ForceToUser(), the second call on the value the
\* first returned
EvtChainForceToUser ==
    /\ op = "ForceToRoom"
    /\ \E t \in now..MaxTime :
        /\ ret' = Some(ForceToUser(Val(ret), t).ret)
        /\ now' = t
    /\ op' = "ForceToRoom.ForceToUser"
    /\ UNCHANGED <<store, e, msg, calls, panicked, res>>
    /\ UNCHANGED brokerVars

\* chaining: e.ForceToRoom().ForceToUser().Reply(m)
EvtChainReply ==
    /\ op = "ForceToRoom.ForceToUser"
    /\ \E m \in Msgs, t1 \in now..MaxTime, t2 \in now..MaxTime :
        /\ t1 <= t2
        /\ (Val(ret).ToRoom /\ Val(ret).ToUser) \/ t1 = t2
        /\ LET r == Reply(Val(ret), m, store, t1, t2)
           IN  /\ calls' = r.calls
               /\ panicked' = r.panicked
        /\ msg' = m
        /\ now' = t2
    /\ op' = "ForceToRoom.ForceToUser.Reply"
    /\ UNCHANGED <<store, e, ret, res>>
    /\ UNCHANGED brokerVars

NextEvt ==
    \/ EvtReply
    \/ EvtReplyToRoom
    \/ EvtReplyDM
    \/ EvtClone
    \/ EvtReplyTable
    \/ EvtAsPref
    \/ EvtForceToRoom
    \/ EvtForceToUser
    \/ EvtChainForceToUser
    \/ EvtChainReply

SpecEvt == InitEvt /\ [][NextEvt]_vars

-----------------------------------------------------------------------------
(* SpecArgv: Evt.BodyAsArgv on every body of a bounded set *)

\* letters, whitespace, single quote and double quote
Alphabet == {"a", "b", " ", SQ, DQ}

BodyTexts == UNION {[1..n -> Alphabet] : n \in 0..MaxLen}

InitArgv ==
    /\ now = 0
    /\ store = {}
    /\ e \in {[ZeroEvt EXCEPT !.Body = b] : b \in BodyTexts}
    /\ op = "init" /\ msg = <<>> /\ calls = <<>> /\ panicked = FALSE /\ ret = Nil
    /\ res = Nil
    /\ BrokerIdle

\* e.BodyAsArgv()
EvtBodyAsArgv ==
    /\ op = "init"
    /\ res' = Some(BodyAsArgv(e))
    /\ op' = "BodyAsArgv"
    /\ UNCHANGED <<now, store, e, msg, calls, panicked, ret>>
    /\ UNCHANGED brokerVars

NextArgv == EvtBodyAsArgv

SpecArgv == InitArgv /\ [][NextArgv]_vars

-----------------------------------------------------------------------------
(* SpecBroker: SimpleStdin, Stream, SimpleStdout and the reply callers *)

\* the bodies the other reply callers send
CallerMsgs == {<<"o", "k">>}

\* the row of the store that scopes "reply-via-dm" to the console user
ConsoleRow(b, v) ==
    [User |-> b.User, Room |-> b.Room, Broker |-> Name(b), Plugin |-> "",
     Key |-> "reply-via-dm", Value |-> v]

\* the broker as NewBroker returns it, USER being unset, the clock reading 0
InitBroker ==
    /\ now = 0
    /\ cb = NewBroker("console", "")
    /\ store \in {{}, {ConsoleRow(cb, "true")}}
    /\ Stdin = <<>> /\ Stdout = <<>> /\ out = <<>>
    /\ pc = "recv" /\ cur = Nil
    /\ pushedIn = <<>> /\ dispatched = <<>> /\ forwarded = <<>>
    /\ enqueued = <<>> /\ written = <<>> /\ nsends = 0
    /\ e = ZeroEvt
    /\ op = "init" /\ msg = <<>> /\ calls = <<>> /\ panicked = FALSE /\ ret = Nil
    /\ res = Nil

\* SimpleStdin, lines 58-71: one iteration of the scan loop.  An empty line is
\* skipped and leaves no trace; any other line is sent on cb.Stdin, the
\* iteration waiting while the channel is full
StdinLine ==
    /\ Len(pushedIn) < MaxLines
    /\ \E line \in Lines :
        IF Len(line) = 0
        THEN UNCHANGED <<Stdin, pushedIn>>
        ELSE /\ CanSend(Stdin, QueueCap)
             /\ Stdin' = ChanSend(Stdin, line)
             /\ pushedIn' = Append(pushedIn, line)
    /\ UNCHANGED <<now, store, cb, Stdout, out, pc, cur, dispatched, forwarded,
                   enqueued, written, nsends>>
    /\ UNCHANGED evtVars

\* Stream, lines 91-118: receive a line, build e, and run up to the next
\* channel send
StreamRecv ==
    /\ pc = "recv"
    /\ Len(Stdin) > 0
    /\ \E t \in Tick(now) :
        /\ LET d == Dispatch(StreamEvt(cb, ChanRecv(Stdin).val, t))
           IN  /\ cur' = Some(d.evt)
               /\ pc' = d.next
        /\ now' = t
    /\ Stdin' = ChanRecv(Stdin).rest
    /\ dispatched' = Append(dispatched, ChanRecv(Stdin).val)
    /\ UNCHANGED <<store, cb, Stdout, out, pushedIn, forwarded,
                   enqueued, written, nsends>>
    /\ UNCHANGED evtVars

\* Stream, line 121: out <- &e
StreamForward ==
    /\ pc = "forward"
    /\ CanSend(out, OutCap)
    /\ out' = ChanSend(out, Val(cur))
    /\ forwarded' = Append(forwarded, [n |-> Len(dispatched), evt |-> Val(cur)])
    /\ pc' = "recv"
    /\ UNCHANGED <<now, store, cb, Stdin, Stdout, cur, pushedIn,
                   dispatched, enqueued, written, nsends>>
    /\ UNCHANGED evtVars

\* Stream, line 116: e.Reply(...), whose one delivery sends on cb.Stdout
StreamReply ==
    /\ pc = "reply"
    /\ CanSend(Stdout, QueueCap)
    /\ \E t \in Tick(now) :
        /\ \E r \in {Reply(Val(cur), UsageMsg, store, t, t)} :
               LET ds == SelectSeq(r.calls, LAMBDA c : c.op # "FindKey")
               IN  /\ ~r.panicked
                   /\ Len(ds) = 1
                   /\ Stdout' = ChanSend(Stdout, CallText(ds[1]))
                   /\ enqueued' = Append(enqueued, [n |-> Len(dispatched),
                                                    via |-> ds[1].op,
                                                    text |-> CallText(ds[1])])
        /\ now' = t
    /\ pc' = "recv"
    /\ UNCHANGED <<store, cb, Stdin, out, cur, pushedIn, dispatched,
                   forwarded, written, nsends>>
    /\ UNCHANGED evtVars

\* SimpleStdout, lines 77-86: take a text and write it to os.Stdout
StdoutWrite ==
    /\ Len(Stdout) > 0
    /\ written' = Append(written, WriteString(ChanRecv(Stdout).val))
    /\ Stdout' = ChanRecv(Stdout).rest
    /\ UNCHANGED <<now, store, cb, Stdin, out, pc, cur, pushedIn,
                   dispatched, forwarded, enqueued, nsends>>
    /\ UNCHANGED evtVars

\* the plugin side takes an event from out
PluginRecv ==
    /\ Len(out) > 0
    /\ out' = ChanRecv(out).rest
    /\ UNCHANGED <<now, store, cb, Stdin, Stdout, pc, cur, pushedIn,
                   dispatched, forwarded, enqueued, written, nsends>>
    /\ UNCHANGED evtVars

\* a reply caller in another goroutine: Broker.Send(ev)
CallerSend ==
    /\ nsends < MaxSends
    /\ CanSend(Stdout, QueueCap)
    /\ \E m \in CallerMsgs :
        LET ev == [ZeroEvt EXCEPT !.Body = m, !.Broker = Some(cb)]
        IN  /\ Stdout' = ChanSend(Stdout, SendText(ev))
            /\ enqueued' = Append(enqueued, [n |-> 0, via |-> "Send",
                                             text |-> SendText(ev)])
    /\ nsends' = nsends + 1
    /\ UNCHANGED <<now, store, cb, Stdin, out, pc, cur, pushedIn,
                   dispatched, forwarded, written>>
    /\ UNCHANGED evtVars

\* a reply caller in another goroutine: Broker.SendTable(ev, hdr, rows)
CallerSendTable ==
    /\ nsends < MaxSends
    /\ CanSend(Stdout, QueueCap)
    /\ LET ev == [ZeroEvt EXCEPT !.Broker = Some(cb)]
       IN  /\ Stdout' = ChanSend(Stdout, SendTableText(ev, TableHdr, TableRows))
           /\ enqueued' = Append(enqueued,
                                 [n |-> 0, via |-> "SendTable",
                                  text |-> SendTableText(ev, TableHdr, TableRows)])
    /\ nsends' = nsends + 1
    /\ UNCHANGED <<now, store, cb, Stdin, out, pc, cur, pushedIn,
                   dispatched, forwarded, written>>
    /\ UNCHANGED evtVars

NextBroker ==
    \/ StdinLine
    \/ StreamRecv
    \/ StreamForward
    \/ StreamReply
    \/ StdoutWrite
    \/ PluginRecv
    \/ CallerSend
    \/ CallerSendTable

SpecBroker == InitBroker /\ [][NextBroker]_vars

\* the three goroutines run for the life of the process and the Go scheduler
\* runs every goroutine that is not blocked; the receiver of out keeps
\* receiving.  The reply callers are under no obligation to send.
SpecBrokerFair ==
    /\ InitBroker /\ [][NextBroker]_vars
    /\ WF_vars(StdinLine)
    /\ WF_vars(StreamRecv) /\ WF_vars(StreamForward) /\ WF_vars(StreamReply)
    /\ WF_vars(StdoutWrite)
    /\ WF_vars(PluginRecv)

-----------------------------------------------------------------------------
(* Claims about Evt.Reply and Evt.Clone, under SpecEvt *)

\* the calls named name among cs, in order
CallsOf(cs, name) == SelectSeq(cs, LAMBDA c : c.op = name)

\* the deliveries among cs, in order
Deliveries(cs) == SelectSeq(cs, LAMBDA c : c.op \in {"ReplyFunc", "Send", "SendDM"})

\* the names of the calls cs, in order
OpsOf(cs) == [i \in 1..Len(cs) |-> cs[i].op]

\* whether the delivery c carries the message m
Carries(c, m) == IF c.op = "ReplyFunc" THEN c.arg = m ELSE c.arg.Body = m

\* a row of the store gives "reply-via-dm" the value "true" in the scope of ev
DMPreferred(ev, st) ==
    \E r \in st :
        /\ r.User = ev.UserId /\ r.Room = ev.RoomId
        /\ r.Broker = Val(ev.Broker).Room
        /\ r.Plugin = (IF ev.instance = Nil THEN "" ELSE Val(ev.instance).Plugin.Name)
        /\ r.Key = "reply-via-dm" /\ r.Value = "true"

NumFlags(ev) ==
    (IF ev.ToFunc THEN 1 ELSE 0) + (IF ev.ToRoom THEN 1 ELSE 0)
        + (IF ev.ToUser THEN 1 ELSE 0)

\* C1: Reply on an envelope with ToFunc set and a delivery function stored
\* calls that function exactly once, with the message, whatever ToRoom, ToUser
\* and the preference store are.
C1_FuncAlwaysCalled ==
    (op = "Reply" /\ e.ToFunc /\ e.ReplyFunc # Nil) =>
        /\ Len(CallsOf(calls, "ReplyFunc")) = 1
        /\ CallsOf(calls, "ReplyFunc")[1].arg = msg

C1_Witness ==
    /\ op = "Reply" /\ e.ToFunc /\ e.ToRoom /\ e.ToUser /\ e.ReplyFunc # Nil
    /\ e.Broker # Nil /\ e.instance = Nil /\ PrefRow("", "true") \in store
    /\ OpsOf(calls) = <<"ReplyFunc", "Send", "SendDM">>

\* C2 as stated: Reply on any envelope with only ToRoom set makes exactly one
\* call, a room Send carrying the message: no SendDM and no preference lookup.
C2_Original ==
    (op = "Reply" /\ e.ToRoom /\ ~e.ToUser /\ ~e.ToFunc) =>
        /\ OpsOf(calls) = <<"Send">>
        /\ calls[1].arg.Body = msg

\* C2 amended: the same, for an envelope that has a broker attached.
C2_RoomOnly ==
    (op = "Reply" /\ e.ToRoom /\ ~e.ToUser /\ ~e.ToFunc /\ e.Broker # Nil) =>
        /\ OpsOf(calls) = <<"Send">>
        /\ calls[1].arg.Body = msg
        /\ ~panicked

C2_Witness ==
    /\ op = "Reply" /\ e.ToRoom /\ ~e.ToUser /\ ~e.ToFunc /\ e.Broker # Nil
    /\ DMPreferred(e, store)
    /\ OpsOf(calls) = <<"Send">>

\* the calls Reply makes when every set force flag fires once, in the order
\* function, room, direct message
ForcedOps(ev) ==
    (IF ev.ToFunc THEN <<"ReplyFunc">> ELSE <<>>)
        \o (IF ev.ToRoom THEN <<"Send">> ELSE <<>>)
        \o (IF ev.ToUser THEN <<"SendDM">> ELSE <<>>)

\* C3 as stated: after Reply on any envelope the deliveries are as many as the
\* set force flags, in the order function, room, direct message, each with
\* the message, and no preference lookup is made.
C3_Original ==
    (op = "Reply") =>
        /\ Len(Deliveries(calls)) = NumFlags(e)
        /\ OpsOf(calls) = ForcedOps(e)
        /\ \A i \in 1..Len(calls) : Carries(calls[i], msg)

\* C3 amended: the same, for an envelope with at least one force flag set, a
\* broker attached and, if ToFunc is set, a delivery function stored.
C3_FlagsIndependent ==
    (/\ op = "Reply" /\ (e.ToFunc \/ e.ToRoom \/ e.ToUser) /\ e.Broker # Nil
     /\ (e.ToFunc => e.ReplyFunc # Nil)) =>
        /\ Len(Deliveries(calls)) = NumFlags(e)
        /\ OpsOf(calls) = ForcedOps(e)
        /\ \A i \in 1..Len(calls) : Carries(calls[i], msg)
        /\ ~panicked

C3_Witness ==
    /\ op = "Reply" /\ e.ToRoom /\ e.ToUser /\ ~e.ToFunc /\ e.Broker # Nil
    /\ DMPreferred(e, store)
    /\ OpsOf(calls) = <<"Send", "SendDM">>
    /\ calls[1].arg.Body = msg /\ calls[2].arg.Body = msg

\* C4: Reply on an envelope with no force flag and a broker attached makes
\* exactly one delivery, with the message: by SendDM if the store holds
\* "reply-via-dm" = "true" in the scope (user id, room id, broker name,
\* plugin) of the envelope, by the room Send otherwise.
C4_PrefFallback ==
    (op = "Reply" /\ ~e.ToFunc /\ ~e.ToRoom /\ ~e.ToUser /\ e.Broker # Nil) =>
        /\ Len(Deliveries(calls)) = 1
        /\ Deliveries(calls)[1].op = (IF DMPreferred(e, store) THEN "SendDM" ELSE "Send")
        /\ Deliveries(calls)[1].arg.Body = msg
        /\ ~panicked

C4_Witness ==
    /\ op = "Reply" /\ ~e.ToFunc /\ ~e.ToRoom /\ ~e.ToUser /\ e.Broker # Nil
    /\ e.instance # Nil
    /\ PrefRow("uptime", "true") \in store /\ PrefRow("", "false") \in store
    /\ OpsOf(calls) = <<"FindKey", "SendDM">>

\* C5: the envelope Clone returns has empty body, command and subject and no
\* original payload, and the id, room, user, broker and chat/bot flags of the
\* envelope it was called on.
C5_CloneFields ==
    (op = "Clone") =>
        /\ Val(ret).Body = <<>> /\ Val(ret).Command = "" /\ Val(ret).Subject = ""
        /\ Val(ret).Original = Nil
        /\ Val(ret).ID = e.ID
        /\ Val(ret).Room = e.Room /\ Val(ret).RoomId = e.RoomId
        /\ Val(ret).User = e.User /\ Val(ret).UserId = e.UserId
        /\ Val(ret).Broker = e.Broker
        /\ Val(ret).IsChat = e.IsChat /\ Val(ret).IsBot = e.IsBot

\* C11: ForceToRoom returns an envelope with ToRoom set and ForceToUser one
\* with ToUser set, and the call leaves every field of the envelope it was
\* made on as it was.
C11_ForceFrame ==
    [][(op = "init" /\ op' \in {"ForceToRoom", "ForceToUser"}) =>
          /\ e' = e
          /\ (op' = "ForceToRoom" => Val(ret').ToRoom)
          /\ (op' = "ForceToUser" => Val(ret').ToUser)]_vars

C11_Witness ==
    /\ op = "ForceToRoom" /\ ~e.ToRoom /\ e.ToUser /\ e.ToFunc
    /\ e.Body # <<>> /\ e.Original # Nil
    /\ Val(ret).ToRoom

\* C12: ReplyTable on an envelope with a broker attached makes exactly one
\* call, the broker's SendTable with the header and the rows: no Send, no
\* SendDM, no delivery function and no preference lookup, whatever the force
\* flags and the store are.
C12_TableDirect ==
    (op = "ReplyTable" /\ e.Broker # Nil) =>
        /\ OpsOf(calls) = <<"SendTable">>
        /\ calls[1].arg.hdr = TableHdr /\ calls[1].arg.rows = TableRows
        /\ ~panicked

C12_Witness ==
    /\ op = "ReplyTable" /\ e.ToFunc /\ e.ToRoom /\ e.ToUser
    /\ e.ReplyFunc # Nil /\ e.Broker # Nil /\ DMPreferred(e, store)
    /\ OpsOf(calls) = <<"SendTable">>

\* C14 as stated: the timestamp of the envelope Clone returns is not earlier
\* than the timestamp of the envelope it was called on, whatever that is.
C14_Original ==
    (op = "Clone") => Val(ret).Time >= e.Time

\* C14 amended: the same, for an envelope whose timestamp is not later than
\* the reading of the clock when Clone is called.
C14_CloneTime ==
    [][(op = "init" /\ op' = "Clone" /\ e.Time <= now) =>
          Val(ret').Time >= e.Time]_vars

C14_Witness ==
    /\ op = "Clone" /\ e.Time = 0 /\ Val(ret).Time = MaxTime

\* the sends on the broker among cs, in order
BrokerSends(cs) == SelectSeq(cs, LAMBDA c : c.op \in {"Send", "SendDM", "SendTable"})

\* C17: with no broker attached, ReplyToRoom and ReplyDM (and ReplyTable)
\* panic without having made a call, and Reply panics, without any send on
\* the broker, on every route but the one that ends after the function call.
C17_NoBrokerAborts ==
    (e.Broker = Nil) =>
        /\ (op \in {"ReplyToRoom", "ReplyDM", "ReplyTable"}) =>
               (panicked /\ calls = <<>>)
        /\ (op = "Reply" /\ (e.ToRoom \/ e.ToUser \/ ~e.ToFunc)) =>
               (panicked /\ BrokerSends(calls) = <<>>)

C17_Witness ==
    /\ op = "Reply" /\ e.Broker = Nil /\ e.ToFunc /\ e.ReplyFunc # Nil
    /\ ~e.ToRoom /\ e.ToUser
    /\ panicked /\ OpsOf(calls) = <<"ReplyFunc">>

\* the preference key of an envelope without plugin context
PlainPref(ev) ==
    [User |-> ev.UserId, Room |-> ev.RoomId, Broker |-> Val(ev.Broker).Room,
     Plugin |-> ""]

\* C18: AsPref on an envelope with a broker and no instance returns, without
\* failing, the key (user id, room id, broker name, ""); and Reply on an
\* envelope built by Stream makes the lookup of "reply-via-dm" under that key
\* and does not fail.
C18_AsPrefNoInstance ==
    /\ (op = "AsPref" /\ e.Broker # Nil /\ e.instance = Nil) =>
           (~panicked /\ res = Some(PlainPref(e)))
    /\ (op = "Reply" /\ e \in StreamEnvelopes) =>
           /\ ~panicked
           /\ Len(calls) = 2
           /\ calls[1] = Call("FindKey", [pref |-> PlainPref(e), key |-> "reply-via-dm"])
           /\ calls[2].op = "Send" /\ calls[2].arg.Body = msg

C18_Witness ==
    /\ op = "Reply" /\ e \in StreamEnvelopes /\ e.Body = LineReactionTwoArgs
    /\ e.instance = Nil /\ ~panicked
    /\ OpsOf(calls) = <<"FindKey", "Send">>

\* ev carries no delivery intent
Intentless(ev) ==
    /\ ~ev.ToFunc /\ ~ev.ToRoom /\ ~ev.ToUser
    /\ ev.ReplyFunc = Nil /\ ev.instance = Nil

\* C19: the envelope Clone returns carries no delivery intent; so does every
\* envelope Reply hands to a broker send; and ForceToRoom().ForceToUser()
\* returns an envelope with ToUser alone set, on which Reply (a broker being
\* attached) makes one call, the direct-message send.
C19_NoIntentCarried ==
    /\ (op = "Clone") => Intentless(Val(ret))
    /\ (op \in {"Reply", "ForceToRoom.ForceToUser.Reply"}) =>
           \A i \in 1..Len(calls) :
               (calls[i].op \in {"Send", "SendDM"}) => Intentless(calls[i].arg)
    /\ (op \in {"ForceToRoom.ForceToUser", "ForceToRoom.ForceToUser.Reply"}) =>
           /\ Val(ret).ToUser /\ ~Val(ret).ToRoom /\ ~Val(ret).ToFunc
           /\ Val(ret).ReplyFunc = Nil /\ Val(ret).instance = Nil
    /\ (op = "ForceToRoom.ForceToUser.Reply" /\ e.Broker # Nil) =>
           /\ ~panicked
           /\ OpsOf(calls) = <<"SendDM">>
           /\ calls[1].arg.Body = msg

C19_Witness ==
    /\ op = "ForceToRoom.ForceToUser.Reply"
    /\ e.ToFunc /\ e.ReplyFunc # Nil /\ e.ToRoom /\ ~e.ToUser /\ e.Broker # Nil
    /\ e.instance # Nil /\ store = {}
    /\ OpsOf(calls) = <<"SendDM">>

-----------------------------------------------------------------------------
(* Claims about Evt.BodyAsArgv, under SpecArgv *)

\* the tokens of s from position i on, read left to right: blanks separate;
\* a quote that has a closing quote opens a quoted run, whose token is what
\* stands between the two; anything else opens a run of non-whitespace that
\* extends to the next blank or to the end
RECURSIVE TokensFrom(_, _)
TokensFrom(s, i) ==
    IF i > Len(s) THEN <<>>
    ELSE IF IsSpace(s[i]) THEN TokensFrom(s, i + 1)
    ELSE IF s[i] \in {SQ, DQ} /\ \E j \in (i + 1)..Len(s) : s[j] = s[i]
    THEN LET j == CHOOSE j \in (i + 1)..Len(s) :
                      /\ s[j] = s[i]
                      /\ \A k \in (i + 1)..(j - 1) : s[k] # s[i]
         IN  <<SubSeq(s, i + 1, j - 1)>> \o TokensFrom(s, j + 1)
    ELSE LET k == CHOOSE k \in i..Len(s) :
                      /\ \A n \in i..k : ~IsSpace(s[n])
                      /\ (k = Len(s) \/ IsSpace(s[k + 1]))
         IN  <<SubSeq(s, i, k)>> \o TokensFrom(s, k + 1)

\* C13: BodyAsArgv returns, in order, exactly the tokens of the trimmed body,
\* each a maximal run of non-whitespace or the contents of a quoted run with
\* the quotes stripped; it never fails, and it returns the empty sequence only
\* if the trimmed body is empty.
C13_Tokens ==
    (op = "BodyAsArgv") =>
        /\ res # Nil
        /\ Val(res) = TokensFrom(TrimSpace(e.Body), 1)
        /\ (Val(res) = <<>> => TrimSpace(e.Body) = <<>>)

-----------------------------------------------------------------------------
(* Claims about the console broker, under SpecBroker *)

\* Stream is through with the i-th line it received
Done(i) == i < Len(dispatched) \/ pc = "recv"

ArgsOf(line) == ArgvOfLine[line]

\* line is the reaction command with n additional arguments
IsReaction(line, n) ==
    /\ HasPrefix(line, <<"/">>)
    /\ ArgsOf(line)[1] = ReactionCmd
    /\ Len(ArgsOf(line)) = n + 1

\* the events forwarded, and the texts enqueued, for the i-th line
FwdOf(i) == SelectSeq(forwarded, LAMBDA f : f.n = i)

EnqOf(i) == SelectSeq(enqueued, LAMBDA q : q.n = i)

Texts(qs) == [i \in 1..Len(qs) |-> qs[i].text]

IsPrefix(a, b) == Len(a) <= Len(b) /\ SubSeq(b, 1, Len(a)) = a

RECURSIVE IsSubseq(_, _)
IsSubseq(a, b) ==
    IF a = <<>> THEN TRUE
    ELSE IF b = <<>> THEN FALSE
    ELSE IF Head(a) = Head(b) THEN IsSubseq(Tail(a), Tail(b))
    ELSE IsSubseq(a, Tail(b))

\* C6: once Stream is through with a line "/reaction X", it has forwarded
\* exactly one event for it, with body X and the original payload re-typed as
\* the reaction X.
C6_ReactionForwarded ==
    \A i \in 1..Len(dispatched) :
        (IsReaction(dispatched[i], 1) /\ Done(i)) =>
            /\ Len(FwdOf(i)) = 1
            /\ FwdOf(i)[1].evt.Body = ArgsOf(dispatched[i])[2]
            /\ FwdOf(i)[1].evt.Original =
                   Some([type |-> "SlashReaction", val |-> ArgsOf(dispatched[i])[2]])

\* C7: once Stream is through with a reaction command whose additional
\* arguments are not exactly one, it has forwarded no event for it and has
\* enqueued exactly one text for it, the usage error.
C7_UsageError ==
    \A i \in 1..Len(dispatched) :
        (/\ HasPrefix(dispatched[i], <<"/">>)
         /\ ArgsOf(dispatched[i])[1] = ReactionCmd
         /\ Len(ArgsOf(dispatched[i])) # 2
         /\ Done(i)) =>
            /\ Len(FwdOf(i)) = 0
            /\ Len(EnqOf(i)) = 1
            /\ EnqOf(i)[1].text = UsageMsg

C7_Witness ==
    /\ Len(dispatched) = 2 /\ pc = "recv"
    /\ dispatched[1] = LineReactionTwoArgs /\ dispatched[2] = LineReactionNoArg
    /\ Len(EnqOf(1)) = 1 /\ Len(EnqOf(2)) = 1
    /\ forwarded = <<>>
    /\ written = <<UsageMsg, UsageMsg>>

\* the raw lines the forwarded events point to, in the order forwarded
ForwardedLines == [k \in 1..Len(forwarded) |-> Val(forwarded[k].evt.Original).val]

\* C8: the lines Stream has received are, in order, the first lines sent on
\* cb.Stdin, and the lines of the forwarded events are a subsequence of them.
C8_DispatchOrder ==
    /\ IsPrefix(dispatched, pushedIn)
    /\ IsSubseq(ForwardedLines, dispatched)

C8_Witness ==
    /\ pushedIn = <<LinePlain, LineUnknown, LineReactionNoArg>>
    /\ dispatched = pushedIn
    /\ Len(forwarded) = 1
    /\ pc = "recv"

\* C9: the texts written to the sink are, in order and unchanged, the first
\* texts sent on cb.Stdout.
C9_WrittenPrefix == IsPrefix(written, Texts(enqueued))

C9_Witness ==
    /\ written = <<UsageMsg, SendTableText(ZeroEvt, TableHdr, TableRows), UsageMsg>>
    /\ enqueued[1].n = 1 /\ enqueued[2].n = 0 /\ enqueued[3].n = 2

\* C10: each queue holds at most its capacity and exactly the items sent and
\* not yet taken, and nothing is sent on a queue that is at capacity.
C10_Backpressure ==
    /\ [](/\ Len(Stdin) <= QueueCap
          /\ Len(Stdout) <= QueueCap
          /\ pushedIn = dispatched \o Stdin
          /\ Len(enqueued) = Len(written) + Len(Stdout)
          /\ Stdout = SubSeq(Texts(enqueued), Len(written) + 1, Len(enqueued)))
    /\ [][/\ Len(Stdin) = QueueCap => pushedIn' = pushedIn
          /\ Len(Stdout) = QueueCap => enqueued' = enqueued]_vars

C10_Witness ==
    /\ Len(Stdin) = QueueCap /\ Len(pushedIn) > QueueCap
    /\ Len(Stdout) = QueueCap /\ written = <<>>
    /\ \E i, j \in 1..Len(enqueued) : enqueued[i].n = 1 /\ enqueued[j].n = 0

\* C15: for a line that begins with "/" and whose first token is not
\* "/reaction", Stream forwards no event and enqueues no text, and is back at
\* the receive of the next line as soon as it has taken the line.
C15_UnknownDropped ==
    \A i \in 1..Len(dispatched) :
        (/\ HasPrefix(dispatched[i], <<"/">>)
         /\ ArgsOf(dispatched[i])[1] # ReactionCmd) =>
            /\ FwdOf(i) = <<>>
            /\ EnqOf(i) = <<>>
            /\ (i = Len(dispatched) => pc = "recv")

C15_Witness ==
    /\ dispatched = <<LineUnknown, LinePlain>>
    /\ Len(forwarded) = 1 /\ forwarded[1].n = 2
    /\ enqueued = <<>> /\ pc = "recv"

\* C16: once Stream is through with a line that does not begin with "/", it
\* has forwarded exactly one event for it: the body is the line as received,
\* user and room (names and ids) are those of the broker, the broker is cb and
\* no force flag is set; and it has enqueued no text for it.
C16_PlainForwarded ==
    \A i \in 1..Len(dispatched) :
        (~HasPrefix(dispatched[i], <<"/">>)) =>
            /\ EnqOf(i) = <<>>
            /\ Len(FwdOf(i)) = (IF Done(i) THEN 1 ELSE 0)
            /\ \A k \in 1..Len(FwdOf(i)) :
                   LET ev == FwdOf(i)[k].evt
                   IN  /\ ev.Body = dispatched[i]
                       /\ ev.User = cb.User /\ ev.UserId = cb.User
                       /\ ev.Room = cb.Room /\ ev.RoomId = cb.Room
                       /\ ev.Broker = Some(cb)
                       /\ ~ev.ToFunc /\ ~ev.ToRoom /\ ~ev.ToUser

C16_Witness ==
    /\ dispatched = <<LinePlain, LinePlain>> /\ pc = "recv"
    /\ Len(forwarded) = 2 /\ forwarded[2].evt.Body = LinePlain
    /\ enqueued = <<>>

\* C20: every line sent on cb.Stdin is eventually received by Stream and
\* dealt with, Stream being back at its receive, whatever the lines before
\* it were; and every text sent on cb.Stdout is eventually written.
C20_Progress ==
    /\ \A n \in 1..MaxLines :
           (Len(pushedIn) >= n) ~> (Len(dispatched) >= n /\ Done(n))
    /\ \A n \in 1..(MaxLines + MaxSends) :
           (Len(enqueued) >= n) ~> (Len(written) >= n)

C20_Witness ==
    /\ dispatched = <<LineReactionNoArg, LineUnknown, LinePlain>>
    /\ pushedIn = dispatched /\ pc = "recv"
    /\ Len(forwarded) = 1 /\ out = <<>>
    /\ Len(enqueued) = 2 /\ written = Texts(enqueued)

====
